---- MODULE Spec2Model ----
(***************************************************************************)
(* A model of pihole-mcp-server's HTTP facade (api_wrapper.py) and of the  *)
(* session cleanup of its host module (main.py).                           *)
(*                                                                         *)
(*   import phase   the patched FastMCP.tool decorator records every       *)
(*                  registration of the host module in CAPTURED_TOOLS      *)
(*   resolution     TOOL_MAP is built once: capture, probe, explicit export*)
(*   serving        healthz, list_tools, debug_introspect and call_tool    *)
(*                  run as coroutines of one event loop; synchronous tool  *)
(*                  handlers run on worker threads (asyncio.to_thread)     *)
(*   cleanup        close_pihole_sessions, from atexit and from the signal *)
(*                  handler, which may interrupt a running invocation      *)
(***************************************************************************)
EXTENDS Integers, Sequences, FiniteSets, TLC

VARIABLES
    phase,            \* "import" | "serving" | "failed": api_wrapper's module state
    script,           \* the host module's top-level @mcp.tool registrations, in order
    regPos,           \* how many of them have run
    lateRegs,         \* registrations made through the decorator after startup
    CAPTURED_TOOLS,   \* api_wrapper.CAPTURED_TOOLS
    mcp,              \* the host's root instance, as far as the prober can see it
    EXPOSED_TOOLS,    \* main.EXPOSED_TOOLS (None when the host does not define it)
    TOOL_MAP,         \* api_wrapper.TOOL_MAP
    startupMap,       \* history: TOOL_MAP as it was when startup ended
    req,              \* the in-flight HTTP requests, one record per slot
    probeIn,          \* the root handed to a stand-alone run of the prober
    probeOut,         \* what that run produced
    clients,          \* main.pihole_clients, as the number of clients
    _sessions_closed, \* main._sessions_closed
    closeCalls,       \* history: how often each client's close_session was called
    closeErrors,      \* history: how many close_session errors were logged
    frames,           \* the stack of running close_pihole_sessions invocations
    exited            \* the atexit callback has been started

vars == <<phase, script, regPos, lateRegs, CAPTURED_TOOLS, mcp, EXPOSED_TOOLS,
          TOOL_MAP, startupMap, req, probeIn, probeOut, clients,
          _sessions_closed, closeCalls, closeErrors, frames, exited>>

startupVars == <<phase, script, regPos, lateRegs, CAPTURED_TOOLS, mcp,
                 EXPOSED_TOOLS, TOOL_MAP, startupMap>>
probeVars == <<probeIn, probeOut>>
cleanupVars == <<clients, _sessions_closed, closeCalls, closeErrors, frames,
                 exited>>

(***************************************************************************)
(* Bounds of the model.                                                    *)
(***************************************************************************)
NumReq == 2        \* request slots: requests in flight at once
MaxRegs == 2       \* registrations in a host module of the startup family
MaxLateRegs == 1   \* registrations after startup
MaxDepth == 2      \* close_pihole_sessions invocations nested by signals

(***************************************************************************)
(* Values.                                                                 *)
(***************************************************************************)
None == "None"                 \* Python's None
Null == "null"                 \* JSON null, as a value of args
NonCallable == "not_callable"  \* some object that is not callable
NonString == "non_string"      \* some object that is not a str
EmptyMap == [x \in {} |-> None]

setdefault(out, k, v) == IF k \in DOMAIN out THEN out ELSE out @@ (k :> v)
setitem(d, k, v) == [x \in DOMAIN d \cup {k} |-> IF x = k THEN v ELSE d[x]]

(***************************************************************************)
(* The tool handlers the host module may register.  Each is a callable     *)
(* with the parameter list inspect.signature reports for it (or fails to   *)
(* report), a synchronous or asynchronous nature, and a __name__ or none.  *)
(***************************************************************************)
Handlers == {"hSync", "hAsync", "hOpaque", "hHang", "hIsdisjoint"}

POSITIONAL_ONLY == "POSITIONAL_ONLY"
POSITIONAL_OR_KEYWORD == "POSITIONAL_OR_KEYWORD"
KEYWORD_ONLY == "KEYWORD_ONLY"
VAR_KEYWORD == "VAR_KEYWORD"

Param(n, k, d) == [name |-> n, kind |-> k, has_default |-> d]

\* def hSync(q, *, p); async def hAsync(p=..., **kw); hOpaque(p, **kw) is a
\* callable object without a retrievable signature; def hHang() never
\* returns; hIsdisjoint is the bound method dict_items.isdisjoint(other, /).
Params(h) ==
    CASE h = "hSync" -> <<Param("q", POSITIONAL_OR_KEYWORD, FALSE),
                          Param("p", KEYWORD_ONLY, FALSE)>>
      [] h = "hAsync" -> <<Param("p", POSITIONAL_OR_KEYWORD, TRUE),
                           Param("kw", VAR_KEYWORD, FALSE)>>
      [] h = "hOpaque" -> <<Param("p", POSITIONAL_OR_KEYWORD, FALSE),
                            Param("kw", VAR_KEYWORD, FALSE)>>
      [] h = "hHang" -> <<>>
      [] h = "hIsdisjoint" -> <<Param("other", POSITIONAL_ONLY, FALSE)>>

\* inspect.signature(h) raises ValueError for these.
Uninspectable == {"hOpaque", "hIsdisjoint"}

\* inspect.iscoroutinefunction(h)
iscoroutinefunction(h) == h = "hAsync"

\* The handler never returns once it runs.
Hangs(h) == h = "hHang"

\* getattr(h, "__name__", None): hOpaque is an instance with __call__.
FuncName(h) ==
    IF h \in Handlers \ {"hOpaque"}
    THEN (IF h = "hIsdisjoint" THEN "isdisjoint" ELSE h)
    ELSE None

callable(v) == v \in Handlers

\* Every tool name of the model, in the order sorted() gives them.
NameOrder == <<"alias", "hAsync", "hHang", "hSync", "isdisjoint",
               "unnamed_tool", "zz">>
Names == {NameOrder[i] : i \in 1..Len(NameOrder)}

\* sorted(d.keys())
sorted_keys(d) == SelectSeq(NameOrder, LAMBDA n : n \in DOMAIN d)

(***************************************************************************)
(* Capture Interceptor: the decorator returned by _patched_tool.  A        *)
(* registration call is mcp.tool(targs..., name=...)(func): `name` is the  *)
(* keyword (None when absent), `targ0` the first positional argument (None *)
(* when there is none), `func` the decorated object.                       *)
(***************************************************************************)
RegCall(n, t, f) == [name |-> n, targ0 |-> t, func |-> f]

\* The tool name the decorator settles on.
tool_name(call) ==
    IF call.name \notin {None, ""} THEN call.name
    ELSE IF call.targ0 \notin {None, NonString} THEN call.targ0
    ELSE IF FuncName(call.func) \notin {None, ""} THEN FuncName(call.func)
    ELSE "unnamed_tool"

\* A first-writer-wins table.
PatchedToolKeepFirst(captured, call) ==
    IF callable(call.func)
    THEN setdefault(captured, tool_name(call), call.func)
    ELSE captured

\* CAPTURED_TOOLS after the decorator has run on one registration.
_patched_tool(captured, call) ==
    IF callable(call.func)
    THEN setitem(captured, tool_name(call), call.func)
    ELSE captured

(***************************************************************************)
(* Registry Prober.  Objects are records: `kind` says what isinstance and  *)
(* callable answer, `items` are a dict's entries, a list's elements or an  *)
(* object's public and private members in dir() order, `attrs` the         *)
(* attributes getattr finds.  Leaves (entries, elements, members) are      *)
(* records too.                                                            *)
(***************************************************************************)
Leaf(k, n, h) == [k |-> k, name |-> n, h |-> h]
Fn(h) == Leaf("callable", FuncName(h), h)        \* a callable
Wrapper(n, h) == Leaf("wrapper", n, h)           \* .name and .handler
Pair(n, h) == Leaf("pair", n, h)                 \* the tuple (n, h)
Junk == Leaf("junk", None, None)                 \* nothing tool-like
Raiser == Leaf("raiser", None, None)             \* its .name property raises
GetattrRaises == Leaf("getattr_raises", None, None) \* reading the member raises

Item(k, v) == [key |-> k, val |-> v]
Obj(id, kind, items, attrs) ==
    [id |-> id, kind |-> kind, items |-> items, attrs |-> attrs]
NoneObj == Obj(0, "none", <<>>, EmptyMap)
\* An attribute whose access raises something other than AttributeError.
RaisesObj == Obj(0, "raises", <<>>, EmptyMap)
\* A callable attribute; calling it gives `ret` (RaisesObj: the call raises).
Accessor(id, ret) == Obj(id, "accessor", <<>>, "return" :> ret)

\* getattr(o, a, None): only AttributeError turns into the default.
getattr(o, a) == IF a \in DOMAIN o.attrs THEN o.attrs[a] ELSE NoneObj

Guess(tag, n, h) == [tag |-> tag, name |-> n, h |-> h]
NoGuess == Guess("none", None, None)
GuessRaised == Guess("raised", None, None)

_looks_like_tool_object(obj) ==
    CASE obj.k = "callable" /\ obj.name # None -> Guess("tool", obj.name, obj.h)
      [] obj.k = "raiser" -> GuessRaised
      [] obj.k = "wrapper" /\ obj.name # NonString /\ callable(obj.h) ->
            Guess("tool", obj.name, obj.h)
      [] obj.k = "pair" /\ obj.name # NonString /\ callable(obj.h) ->
            Guess("tool", obj.name, obj.h)
      [] OTHER -> NoGuess

Collected(out, raised) == [out |-> out, raised |-> raised]

\* The dict branch: nothing is caught.
RECURSIVE CollectDict(_, _, _)
CollectDict(items, i, out) ==
    IF i > Len(items) THEN Collected(out, FALSE)
    ELSE LET k == items[i].key
             v == items[i].val
             guess == _looks_like_tool_object(v)
         IN  IF k = NonString THEN CollectDict(items, i + 1, out)
             ELSE IF v.k = "callable"
             THEN CollectDict(items, i + 1, setdefault(out, k, v.h))
             ELSE IF guess.tag = "raised" THEN Collected(out, TRUE)
             ELSE IF guess.tag = "tool"
             THEN CollectDict(items, i + 1, setdefault(out, guess.name, guess.h))
             ELSE CollectDict(items, i + 1, out)

\* The list, tuple and set branch: nothing is caught.
RECURSIVE CollectList(_, _, _)
CollectList(items, i, out) ==
    IF i > Len(items) THEN Collected(out, FALSE)
    ELSE LET guess == _looks_like_tool_object(items[i].val)
         IN  IF guess.tag = "raised" THEN Collected(out, TRUE)
             ELSE IF guess.tag = "tool"
             THEN CollectList(items, i + 1, setdefault(out, guess.name, guess.h))
             ELSE CollectList(items, i + 1, out)

PrivateNames == {"_impl", "_tools"}
startswith_underscore(n) == n \in PrivateNames

\* The generic branch: the whole loop is in try/except Exception: pass, so
\* an error ends the loop and keeps what was found before it.
RECURSIVE CollectObject(_, _, _)
CollectObject(items, i, out) ==
    IF i > Len(items) THEN Collected(out, FALSE)
    ELSE LET name == items[i].key
             val == items[i].val
             guess == _looks_like_tool_object(val)
         IN  IF startswith_underscore(name) THEN CollectObject(items, i + 1, out)
             ELSE IF val.k = "getattr_raises" THEN Collected(out, FALSE)
             ELSE IF val.k = "callable"
             THEN CollectObject(items, i + 1, setdefault(out, name, val.h))
             ELSE IF guess.tag = "raised" THEN Collected(out, FALSE)
             ELSE IF guess.tag = "tool"
             THEN CollectObject(items, i + 1, setdefault(out, guess.name, guess.h))
             ELSE CollectObject(items, i + 1, out)

\* out after the call, and whether the call raised.
_collect_from_container(container, out) ==
    CASE container.kind = "dict" -> CollectDict(container.items, 1, out)
      [] container.kind = "list" -> CollectList(container.items, 1, out)
      [] OTHER -> CollectObject(container.items, 1, out)

AttrNames == <<"tools", "_tools", "registered_tools", "tool_registry",
               "registry", "router">>
ParentAttrs == <<"server", "_server", "app">>
SubNames == <<"tools", "_tools", "items", "values">>

\* dict.items() and dict.values(): view objects, whose public members are
\* isdisjoint (a method) and mapping, and mapping alone.
DictItemsView ==
    Obj(0, "object", <<Item("isdisjoint", Fn("hIsdisjoint")),
                       Item("mapping", Junk)>>, EmptyMap)
DictValuesView == Obj(0, "object", <<Item("mapping", Junk)>>, EmptyMap)

\* getattr(c, subname, None), called when it is callable.
SubOf(c, subname) ==
    IF c.kind = "dict"
    THEN (CASE subname = "items" -> DictItemsView
            [] subname = "values" -> DictValuesView
            [] OTHER -> NoneObj)
    ELSE LET sub == getattr(c, subname)
         IN  IF sub.kind = "accessor" THEN sub.attrs["return"] ELSE sub

\* The candidates of one object's registry attributes, in order.
AttrCandidates(o) == [i \in 1..Len(AttrNames) |-> getattr(o, AttrNames[i])]

ParentCandidates(root, pa) ==
    LET parent == getattr(root, pa)
    IN  IF parent.kind = "none" THEN <<>>
        ELSE IF parent.kind = "raises" THEN <<parent>>
        ELSE <<parent>> \o AttrCandidates(parent)

Candidates(root) ==
    AttrCandidates(root) \o ParentCandidates(root, ParentAttrs[1])
        \o ParentCandidates(root, ParentAttrs[2])
        \o ParentCandidates(root, ParentAttrs[3])

\* None dropped, one entry per id().
RECURSIVE Flat(_, _, _)
Flat(candidates, i, seen) ==
    IF i > Len(candidates) THEN <<>>
    ELSE LET c == candidates[i]
         IN  IF c.kind = "none" \/ c.id \in seen THEN Flat(candidates, i + 1, seen)
             ELSE <<c>> \o Flat(candidates, i + 1, seen \cup {c.id})

\* The four sub-accessors of one candidate; each is in its own try/except.
RECURSIVE ProbeSubs(_, _, _)
ProbeSubs(c, j, found) ==
    IF j > Len(SubNames) THEN found
    ELSE LET sub == SubOf(c, SubNames[j])
         IN  IF sub.kind \in {"none", "raises"} THEN ProbeSubs(c, j + 1, found)
             ELSE ProbeSubs(c, j + 1, _collect_from_container(sub, found).out)

RECURSIVE ProbeFlat(_, _, _)
ProbeFlat(flat, i, found) ==
    IF i > Len(flat) THEN Collected(found, FALSE)
    ELSE LET top == _collect_from_container(flat[i], found)
         IN  IF top.raised THEN Collected(EmptyMap, TRUE)
             ELSE ProbeFlat(flat, i + 1, ProbeSubs(flat[i], 1, top.out))

\* What _probe_tool_registry(root) returns, or that it raised.
_probe_tool_registry(root) ==
    LET candidates == Candidates(root)
    IN  IF \E i \in 1..Len(candidates) : candidates[i].kind = "raises"
        THEN Collected(EmptyMap, TRUE)
        ELSE ProbeFlat(Flat(candidates, 1, {}), 1, EmptyMap)

(***************************************************************************)
(* Tool Map Resolver.  The explicit export is a record: kind "none" when   *)
(* the host module has no EXPOSED_TOOLS, "other" when it is not a dict,    *)
(* "dict" with the entries in d; the key NonString stands for a key that   *)
(* is not a str.                                                           *)
(***************************************************************************)
Export(kind, d) == [kind |-> kind, d |-> d]

\* {k: v for k, v in fallback.items() if isinstance(k, str) and callable(v)}
FilterExport(E) ==
    IF E.kind = "dict"
    THEN LET keep == {k \in DOMAIN E.d : k # NonString /\ callable(E.d[k])}
         IN  [k \in keep |-> E.d[k]]
    ELSE EmptyMap

\* A resolver that fills the gaps of one tier from the next.
ResolveMerging(C, P, E) == FilterExport(E) @@ P @@ C

\* TOOL_MAP as the module-level code leaves it, from the capture table, the
\* probe's result and the explicit export; empty when all three are.
ResolveToolMap(C, P, E) ==
    IF DOMAIN C # {} THEN C
    ELSE IF DOMAIN P # {} THEN P
    ELSE FilterExport(E)

\* A TOOL_MAP that is the capture table itself, not a copy of it.
ToolMapAliased(tm, old, new) == IF tm = old THEN new ELSE tm

\* TOOL_MAP after a registration has changed CAPTURED_TOOLS from old to new:
\* TOOL_MAP = dict(CAPTURED_TOOLS) made a copy.
ToolMapAfterCapture(tm, old, new) == tm

(***************************************************************************)
(* Invocation Engine.                                                      *)
(***************************************************************************)
One == "1"
Values == {Null, One}

\* The call_tool requests the model sends: the tool and its args.
Call(tool, args) == [tool |-> tool, args |-> args]
Calls ==
    {Call("zz", EmptyMap),
     Call("zz", "p" :> One),
     Call("hSync", EmptyMap),
     Call("hSync", "p" :> Null),
     Call("hSync", "q" :> One),
     Call("hSync", ("p" :> Null) @@ ("q" :> One) @@ ("x" :> One)),
     Call("alias", EmptyMap),
     Call("alias", ("p" :> One) @@ ("x" :> One)),
     Call("unnamed_tool", ("p" :> Null) @@ ("x" :> One)),
     Call("hHang", EmptyMap),
     Call("isdisjoint", EmptyMap)}

Resp(status, detail, body, src) ==
    [status |-> status, detail |-> detail, body |-> body, src |-> src]
NoResp == Resp(0, <<>>, None, "none")

\* TOOL_MAP.get(tool) that falls back to some tool of the map.
LookupAny(tm, tool) ==
    IF tool \in DOMAIN tm THEN tm[tool]
    ELSE IF DOMAIN tm # {} THEN tm[CHOOSE n \in DOMAIN tm : TRUE]
    ELSE None

\* TOOL_MAP.get(req.tool)
Lookup(tm, tool) == IF tool \in DOMAIN tm THEN tm[tool] ELSE None

Bound(missing, kwargs) == [missing |-> missing, kwargs |-> kwargs]

RECURSIVE BindFrom(_, _, _, _)
BindFrom(params, i, args, kwargs) ==
    IF i > Len(params) THEN Bound(None, kwargs)
    ELSE LET p == params[i]
         IN  IF p.kind \in {POSITIONAL_OR_KEYWORD, KEYWORD_ONLY}
             THEN IF p.name \in DOMAIN args
                  THEN BindFrom(params, i + 1, args,
                                kwargs @@ (p.name :> args[p.name]))
                  ELSE IF ~p.has_default
                  THEN Bound(p.name, kwargs)
                  ELSE BindFrom(params, i + 1, args, kwargs)
             ELSE BindFrom(params, i + 1, args, kwargs)

\* Binding that forwards every key of args to the handler.
BindPassingExtras(func, args) ==
    IF func \in Uninspectable THEN Bound(None, args)
    ELSE Bound(BindFrom(Params(func), 1, args, EmptyMap).missing, args)

\* Binding that never reports a missing parameter.
BindLenient(func, args) ==
    LET names == {Params(func)[i].name : i \in
                    {j \in 1..Len(Params(func)) : Params(func)[j].kind \in
                        {POSITIONAL_OR_KEYWORD, KEYWORD_ONLY}}}
    IN  IF func \in Uninspectable THEN Bound(None, args)
        ELSE Bound(None, [k \in names \cap DOMAIN args |-> args[k]])

\* The kwargs call_tool builds from the handler's signature, or the first
\* required parameter that args lacks; args verbatim when inspect.signature
\* raises ValueError or TypeError.
BindArgs(func, args) ==
    IF func \in Uninspectable THEN Bound(None, args)
    ELSE BindFrom(Params(func), 1, args, EmptyMap)

\* Python's own argument binding at func(**kwargs): a TypeError when a
\* parameter without default gets no value or a keyword matches nothing.
CallRaisesTypeError(func, kwargs) ==
    LET ps == Params(func)
        idx == 1..Len(ps)
        byKeyword == {ps[i].name : i \in
                        {j \in idx : ps[j].kind \in
                            {POSITIONAL_OR_KEYWORD, KEYWORD_ONLY}}}
        hasVarKw == \E i \in idx : ps[i].kind = VAR_KEYWORD
    IN  \/ \E i \in idx :
              /\ ps[i].kind \in {POSITIONAL_ONLY, POSITIONAL_OR_KEYWORD,
                                 KEYWORD_ONLY}
              /\ ~ps[i].has_default
              /\ (ps[i].kind = POSITIONAL_ONLY \/ ps[i].name \notin DOMAIN kwargs)
        \/ \E k \in DOMAIN kwargs : k \notin byKeyword /\ ~hasVarKw

\* What a handler that returns gives back: a value of its own making.
Result(func, kwargs) == [by |-> func, got |-> kwargs]

\* How a handler's run may end.  "raise" is an Exception that is not an
\* HTTPException, "raise_http" an HTTPException of the handler's own.
Outcomes == {"return", "raise", "raise_http"}
HandlerHTTPError == [status_code |-> 418, detail |-> "teapot"]

\* A dispatch that calls every handler on the event loop's thread.
DispatchInline(func) == FALSE

\* asyncio.to_thread for a plain function, await for a coroutine function.
to_thread(func) == ~iscoroutinefunction(func)

\* The default executor's worker count, min(32, cpu_count + 4), at its least.
PoolWorkers == 5

\* An error path that reports every failure of a handler as a success.
RespondSwallowing(tool, outcome, msg, value) ==
    Resp(200, <<>>, [tool |-> tool, result |-> value], "handler")

\* The response of call_tool once the handler's run has ended.
Respond(tool, outcome, msg, value) ==
    CASE outcome = "return" ->
            Resp(200, <<>>, [tool |-> tool, result |-> value], "handler")
      [] outcome = "raise_http" ->
            Resp(HandlerHTTPError.status_code, <<HandlerHTTPError.detail>>, None,
                 "handler")
      [] OTHER ->
            Resp(500, <<"Tool '", tool, "' raised an error: ", msg>>, None,
                 "wrapped")

Slots == 1..NumReq

Request(pc, op, tool, args, func, kwargs, execs, raised, resp) ==
    [pc |-> pc, op |-> op, tool |-> tool, args |-> args, func |-> func,
     kwargs |-> kwargs, execs |-> execs, raised |-> raised, resp |-> resp]
Idle == Request("idle", "none", None, EmptyMap, None, EmptyMap, 0, "none", NoResp)
Done(op, resp) ==
    Request("done", op, None, EmptyMap, None, EmptyMap, 0, "none", resp)

\* A plain function called on the event loop's thread keeps the loop until
\* it returns.
HoldsLoop(s) == req[s].pc = "coro" /\ ~iscoroutinefunction(req[s].func)
LoopFreeFor(r) == \A s \in Slots \ {r} : ~HoldsLoop(s)
LoopFree == \A s \in Slots : ~HoldsLoop(s)
Free(r) == req[r].pc \in {"idle", "done"}

(***************************************************************************)
(* The host modules of the model: what main.py registers at import, the    *)
(* root instance it builds, and its explicit export.                       *)
(***************************************************************************)
Root(attrs) == Obj(1, "object", <<>>, attrs)
RootEmpty == Root(EmptyMap)
RootList ==
    Root("tools" :> Obj(2, "list", <<Item(None, Fn("hSync")),
                                     Item(None, Pair("alias", "hAsync"))>>,
                        EmptyMap))
RootDict ==
    Root("_tools" :> Obj(2, "dict", <<Item("hSync", Fn("hSync"))>>, EmptyMap))
RootRaises == Root("registry" :> RaisesObj)

NoExport == Export("none", EmptyMap)
ExportMixed ==
    Export("dict", ("alias" :> "hOpaque") @@ (NonString :> "hSync")
                       @@ ("zz" :> NonCallable))

HostModule(sc, root, ex) == [script |-> sc, mcp |-> root, EXPOSED_TOOLS |-> ex]

\* The modules the facade is served from.
HostModules ==
    {HostModule(<<RegCall(None, None, "hSync"), RegCall("alias", None, "hAsync"),
                  RegCall(None, None, "hHang")>>,
                RootList, NoExport),
     HostModule(<<>>, RootDict, NoExport),
     HostModule(<<>>, RootEmpty, ExportMixed),
     HostModule(<<>>, RootEmpty, NoExport),
     HostModule(<<>>, RootRaises, ExportMixed)}

\* The registrations the startup family draws its modules from.
ScriptCalls ==
    {RegCall(None, None, "hSync"),
     RegCall("alias", "zz", "hAsync"),
     RegCall("", "alias", "hHang"),
     RegCall(None, NonString, "hOpaque"),
     RegCall(None, "hSync", NonCallable),
     RegCall("hSync", None, "hAsync")}
Scripts == UNION {[1..n -> ScriptCalls] : n \in 0..MaxRegs}
StartupRoots == {RootEmpty, RootList, RootDict, RootRaises}
Exports ==
    {NoExport, Export("other", EmptyMap), Export("dict", EmptyMap), ExportMixed,
     Export("dict", (NonString :> "hSync") @@ ("zz" :> NonCallable))}

\* Registrations made after startup.
LateCalls == {RegCall("alias", None, "hSync")}

PendingProbe == [state |-> "pending", out |-> EmptyMap, raised |-> FALSE]
ProbeIdle == probeIn = RootEmpty /\ probeOut = PendingProbe
CleanupIdle ==
    /\ clients = 1
    /\ _sessions_closed = FALSE
    /\ closeCalls = [c \in 1..1 |-> 0]
    /\ closeErrors = 0
    /\ frames = <<>>
    /\ exited = FALSE

Importing(m) ==
    /\ phase = "import"
    /\ script = m.script
    /\ regPos = 0
    /\ lateRegs = 0
    /\ CAPTURED_TOOLS = EmptyMap
    /\ mcp = m.mcp
    /\ EXPOSED_TOOLS = m.EXPOSED_TOOLS
    /\ TOOL_MAP = EmptyMap
    /\ startupMap = EmptyMap
    /\ req = [r \in Slots |-> Idle]

\* api_wrapper is about to import one of the host modules.
Init ==
    /\ \E m \in HostModules : Importing(m)
    /\ ProbeIdle
    /\ CleanupIdle

(***************************************************************************)
(* Startup: the import of main runs its registrations, then the module     *)
(* level code of api_wrapper resolves TOOL_MAP.                            *)
(***************************************************************************)
ImportStep ==
    /\ phase = "import"
    /\ regPos < Len(script)
    /\ CAPTURED_TOOLS' = _patched_tool(CAPTURED_TOOLS, script[regPos + 1])
    /\ regPos' = regPos + 1
    /\ UNCHANGED <<phase, script, lateRegs, mcp, EXPOSED_TOOLS, TOOL_MAP,
                   startupMap, req, probeVars, cleanupVars>>

\* The probe runs only when nothing was captured; an exception of the probe,
\* like the RuntimeError for an empty map, ends the import.
Resolve ==
    /\ phase = "import"
    /\ regPos = Len(script)
    /\ LET captured == CAPTURED_TOOLS
           probed == IF DOMAIN captured = {} THEN _probe_tool_registry(mcp)
                     ELSE Collected(EmptyMap, FALSE)
           resolved == ResolveToolMap(captured, probed.out, EXPOSED_TOOLS)
       IN  IF probed.raised \/ DOMAIN resolved = {}
           THEN /\ phase' = "failed"
                /\ UNCHANGED <<TOOL_MAP, startupMap>>
           ELSE /\ phase' = "serving"
                /\ TOOL_MAP' = resolved
                /\ startupMap' = resolved
    /\ UNCHANGED <<script, regPos, lateRegs, CAPTURED_TOOLS, mcp, EXPOSED_TOOLS,
                   req, probeVars, cleanupVars>>

\* A tool registered through the patched decorator while the facade serves.
LateRegister(call) ==
    /\ phase = "serving"
    /\ lateRegs < MaxLateRegs
    /\ lateRegs' = lateRegs + 1
    /\ CAPTURED_TOOLS' = _patched_tool(CAPTURED_TOOLS, call)
    /\ TOOL_MAP' = ToolMapAfterCapture(TOOL_MAP, CAPTURED_TOOLS, CAPTURED_TOOLS')
    /\ UNCHANGED <<phase, script, regPos, mcp, EXPOSED_TOOLS, startupMap, req,
                   probeVars, cleanupVars>>

(***************************************************************************)
(* Serving.  A request handler runs on the event loop from its start to    *)
(* its first await; healthz, list_tools and debug_introspect never await.  *)
(***************************************************************************)
Serving(r) == phase = "serving" /\ Free(r) /\ LoopFree

healthz(r) ==
    /\ Serving(r)
    /\ req' = [req EXCEPT ![r] =
                 Done("healthz",
                      Resp(200, <<>>, [status |-> "ok",
                                       tool_count |-> Cardinality(DOMAIN TOOL_MAP)],
                           "healthz"))]
    /\ UNCHANGED <<startupVars, probeVars, cleanupVars>>

list_tools(r) ==
    /\ Serving(r)
    /\ req' = [req EXCEPT ![r] =
                 Done("list_tools",
                      Resp(200, <<>>, sorted_keys(TOOL_MAP), "list_tools"))]
    /\ UNCHANGED <<startupVars, probeVars, cleanupVars>>

\* sorted(EXPOSED_TOOLS.keys()) raises for a non-dict and for keys that do
\* not compare; the fresh probe may raise; the framework answers 500.
IntrospectRaises ==
    \/ _probe_tool_registry(mcp).raised
    \/ EXPOSED_TOOLS.kind = "other"
    \/ /\ EXPOSED_TOOLS.kind = "dict"
       /\ NonString \in DOMAIN EXPOSED_TOOLS.d
       /\ Cardinality(DOMAIN EXPOSED_TOOLS.d) > 1

debug_introspect(r) ==
    /\ Serving(r)
    /\ req' = [req EXCEPT ![r] =
                 Done("debug_introspect",
                      IF IntrospectRaises
                      THEN Resp(500, <<"Internal Server Error">>, None, "unhandled")
                      ELSE Resp(200, <<>>,
                                [captured_count |-> Cardinality(DOMAIN CAPTURED_TOOLS),
                                 captured_keys |-> sorted_keys(CAPTURED_TOOLS),
                                 probe_count |->
                                     Cardinality(DOMAIN _probe_tool_registry(mcp).out),
                                 fallback_keys |->
                                     IF DOMAIN EXPOSED_TOOLS.d = {NonString}
                                     THEN <<NonString>>
                                     ELSE sorted_keys(EXPOSED_TOOLS.d)],
                                "debug_introspect"))]
    /\ UNCHANGED <<startupVars, probeVars, cleanupVars>>

\* call_tool up to its await: lookup, binding, and the dispatch of the
\* handler to a worker thread or as a coroutine.
call_tool(r, tool, args) ==
    /\ Serving(r)
    /\ LET func == Lookup(TOOL_MAP, tool)
           bound == BindArgs(func, args)
           sent == Request("done", "call_tool", tool, args, func, EmptyMap, 0,
                           "none", NoResp)
       IN  req' = [req EXCEPT ![r] =
             IF func = None
             THEN [sent EXCEPT !.resp =
                     Resp(404, <<"Tool '", tool, "' not found">>, None, "lookup")]
             ELSE IF bound.missing # None
             THEN [sent EXCEPT !.resp =
                     Resp(400, <<"Missing required parameter: ", bound.missing>>,
                          None, "bind")]
             ELSE [sent EXCEPT !.kwargs = bound.kwargs,
                               !.pc = IF to_thread(func) THEN "queued" ELSE "coro"]]
    /\ UNCHANGED <<startupVars, probeVars, cleanupVars>>

\* A worker of the default executor takes the call.
ThreadStart(r) ==
    /\ req[r].pc = "queued"
    /\ Cardinality({s \in Slots : req[s].pc = "thread"}) < PoolWorkers
    /\ req' = [req EXCEPT ![r].pc = "thread"]
    /\ UNCHANGED <<startupVars, probeVars, cleanupVars>>

\* The handler's run ends and call_tool resumes on the loop to answer.
Complete(r, outcome) ==
    /\ req[r].pc \in {"thread", "coro"}
    /\ ~Hangs(req[r].func)
    /\ LoopFreeFor(r)
    /\ LET q == req[r]
           typeError == CallRaisesTypeError(q.func, q.kwargs)
           actual == IF typeError THEN "raise" ELSE outcome
           msg == CASE typeError -> "TypeError"
                    [] actual = "raise" -> "boom"
                    [] actual = "raise_http" -> HandlerHTTPError.detail
                    [] OTHER -> ""
       IN  req' = [req EXCEPT ![r] =
             [q EXCEPT !.pc = "done",
                       !.execs = q.execs + 1,
                       !.raised = CASE actual = "raise" -> "Exception"
                                    [] actual = "raise_http" -> "HTTPException"
                                    [] OTHER -> "none",
                       !.resp = Respond(q.tool, actual, msg,
                                        Result(q.func, q.kwargs))]]
    /\ UNCHANGED <<startupVars, probeVars, cleanupVars>>

\* Requests for the tools of the map and for one unknown tool.
Sendable == {c \in Calls : c.tool \in DOMAIN TOOL_MAP \cup {"zz"}}

Next ==
    \/ ImportStep
    \/ Resolve
    \/ \E call \in LateCalls : LateRegister(call)
    \/ \E r \in Slots : healthz(r)
    \/ \E r \in Slots : list_tools(r)
    \/ \E r \in Slots : debug_introspect(r)
    \/ \E r \in Slots, c \in Sendable : call_tool(r, c.tool, c.args)
    \/ \E r \in Slots : ThreadStart(r)
    \/ \E r \in Slots, outcome \in Outcomes : Complete(r, outcome)

Spec == Init /\ [][Next]_vars

\* The calls of the facade alone: startup, then call_tool requests in flight
\* together, under the scheduling the runtime guarantees: a free worker takes
\* a queued call, and a handler that does not hang ends and is answered on a
\* free loop.
CallNext ==
    \/ ImportStep
    \/ Resolve
    \/ \E r \in Slots, c \in Sendable : call_tool(r, c.tool, c.args)
    \/ \E r \in Slots : ThreadStart(r)
    \/ \E r \in Slots, outcome \in Outcomes : Complete(r, outcome)

Fairness ==
    \A r \in Slots :
        /\ WF_vars(ThreadStart(r))
        /\ WF_vars(\E outcome \in Outcomes : Complete(r, outcome))

FairSpec == Init /\ [][CallNext]_vars /\ Fairness

(***************************************************************************)
(* Startup over a wide family of host modules, followed by calls of the    *)
(* resolved tools, one at a time.                                          *)
(***************************************************************************)
StartupInit ==
    /\ \E sc \in Scripts, root \in StartupRoots, ex \in Exports :
          Importing(HostModule(sc, root, ex))
    /\ ProbeIdle
    /\ CleanupIdle

StartupNext ==
    \/ ImportStep
    \/ Resolve
    \/ \E c \in Sendable : call_tool(1, c.tool, c.args)
    \/ ThreadStart(1)
    \/ \E outcome \in Outcomes : Complete(1, outcome)

StartupSpec == StartupInit /\ [][StartupNext]_vars

(***************************************************************************)
(* The prober on its own, over a family of root instances.                 *)
(***************************************************************************)
DictTools ==
    Obj(2, "dict", <<Item("hSync", Fn("hSync")), Item(NonString, Fn("hAsync"))>>,
        EmptyMap)
DictWrapped ==
    Obj(3, "dict", <<Item("zz", Wrapper("alias", "hAsync")), Item("hHang", Junk)>>,
        EmptyMap)
DictRaising ==
    Obj(4, "dict", <<Item("hSync", Raiser), Item("alias", Fn("hHang"))>>, EmptyMap)
ListTools ==
    Obj(5, "list", <<Item(None, Fn("hSync")), Item(None, Pair("alias", "hHang")),
                     Item(None, Fn("hOpaque"))>>, EmptyMap)
ListRaising ==
    Obj(6, "list", <<Item(None, Fn("hAsync")), Item(None, Raiser)>>, EmptyMap)
ObjectTools ==
    Obj(7, "object", <<Item("_impl", Fn("hSync")), Item("alias", Fn("hAsync")),
                       Item("hHang", GetattrRaises), Item("hSync", Fn("hSync"))>>,
        "tools" :> ListTools)
ObjectRaising ==
    Obj(8, "object", <<Item("alias", Raiser)>>,
        ("items" :> Accessor(9, RaisesObj)) @@ ("values" :> Accessor(10, DictTools)))

CandPool == {DictTools, DictWrapped, DictRaising, ListTools, ListRaising,
             ObjectTools, ObjectRaising}

\* An inner server object: a candidate itself, with a registry of its own.
Parent(c) ==
    Obj(11, "object", <<Item("hHang", Fn("hHang"))>>,
        IF c.kind = "none" THEN EmptyMap ELSE "_tools" :> c)
Parents == {NoneObj, RaisesObj} \cup {Parent(c) : c \in {NoneObj, ListTools, ListRaising}}

AttrsOf(tools, registry, server) ==
    LET given == ("tools" :> tools) @@ ("registry" :> registry)
                     @@ ("server" :> server)
    IN  [a \in {b \in DOMAIN given : given[b].kind # "none"} |-> given[a]]

ProbeRoots ==
    {Root(AttrsOf(t, g, p)) : t \in CandPool \cup {NoneObj, RaisesObj},
                              g \in CandPool \cup {NoneObj}, p \in Parents}

StartupIdle == Importing(HostModule(<<>>, RootEmpty, NoExport))

ProbeInit ==
    /\ StartupIdle
    /\ probeIn \in ProbeRoots
    /\ probeOut = PendingProbe
    /\ CleanupIdle

RunProbe ==
    /\ probeOut.state = "pending"
    /\ LET r == _probe_tool_registry(probeIn)
       IN  probeOut' = [state |-> "done", out |-> r.out, raised |-> r.raised]
    /\ UNCHANGED <<probeIn, startupVars, req, cleanupVars>>

ProbeNext == RunProbe

ProbeSpec == ProbeInit /\ [][ProbeNext]_vars

(***************************************************************************)
(* Cleanup in main.py.  close_pihole_sessions runs from atexit and from    *)
(* _signal_handler; a signal handler runs on the main thread between two   *)
(* bytecodes of whatever runs there, a running invocation included.  A     *)
(* frame is one invocation: pos is the client its loop reaches next.       *)
(***************************************************************************)
MaxClients == 4

CleanupInit ==
    /\ StartupIdle
    /\ ProbeIdle
    /\ clients \in 1..MaxClients
    /\ _sessions_closed = FALSE
    /\ closeCalls = [c \in 1..clients |-> 0]
    /\ closeErrors = 0
    /\ frames = <<>>
    /\ exited = FALSE

\* close_pihole_sessions up to its loop: the check of the flag.
Enter(src) ==
    IF _sessions_closed THEN UNCHANGED frames
    ELSE frames' = <<[src |-> src, pos |-> 1]>> \o frames

\* The interpreter exits and atexit calls close_pihole_sessions.
AtExit ==
    /\ ~exited
    /\ frames = <<>>
    /\ exited' = TRUE
    /\ Enter("atexit")
    /\ UNCHANGED <<clients, _sessions_closed, closeCalls, closeErrors,
                   startupVars, req, probeVars>>

\* SIGINT or SIGTERM arrives: _signal_handler calls close_pihole_sessions.
_signal_handler ==
    /\ ~(exited /\ frames = <<>>)
    /\ Len(frames) < MaxDepth
    /\ Enter("signal")
    /\ UNCHANGED <<clients, _sessions_closed, closeCalls, closeErrors, exited,
                   startupVars, req, probeVars>>

\* One turn of the loop of the innermost invocation: close_session is
\* called, and whether it raises or not the loop goes on.
CloseSession(raises) ==
    /\ frames # <<>>
    /\ Head(frames).pos <= clients
    /\ closeCalls' = [closeCalls EXCEPT ![Head(frames).pos] = @ + 1]
    /\ closeErrors' = IF raises THEN closeErrors + 1 ELSE closeErrors
    /\ frames' = <<[Head(frames) EXCEPT !.pos = @ + 1]>> \o Tail(frames)
    /\ UNCHANGED <<clients, _sessions_closed, exited, startupVars, req, probeVars>>

\* The loop is over: the flag is set and the invocation returns.
Return ==
    /\ frames # <<>>
    /\ Head(frames).pos > clients
    /\ _sessions_closed' = TRUE
    /\ frames' = Tail(frames)
    /\ UNCHANGED <<clients, closeCalls, closeErrors, exited, startupVars, req,
                   probeVars>>

CleanupNext ==
    \/ AtExit
    \/ _signal_handler
    \/ \E raises \in BOOLEAN : CloseSession(raises)
    \/ Return

CleanupSpec == CleanupInit /\ [][CleanupNext]_vars

(***************************************************************************)
(* The claims.                                                             *)
(***************************************************************************)
IsCall(r) == req[r].op = "call_tool"
InFlight(r) == req[r].pc \in {"queued", "thread", "coro"}
Answered(r) == req[r].pc = "done"
\* call_tool got as far as handing the handler its arguments.
Dispatched(r) == IsCall(r) /\ (InFlight(r) \/ req[r].execs > 0)

ByKeyword(func) ==
    {Params(func)[i].name : i \in
        {j \in 1..Len(Params(func)) :
            Params(func)[j].kind \in {POSITIONAL_OR_KEYWORD, KEYWORD_ONLY}}}
Required(func) ==
    {i \in 1..Len(Params(func)) :
        /\ Params(func)[i].kind \in {POSITIONAL_OR_KEYWORD, KEYWORD_ONLY}
        /\ ~Params(func)[i].has_default}
MissingFrom(func, args) ==
    {i \in Required(func) : Params(func)[i].name \notin DOMAIN args}

\* C1: the resolved Tool Map is the capture table C when C is non-empty,
\* else the probe's result P when P is non-empty, else the explicit export
\* E restricted to string keys and callable values; when that is empty too
\* startup fails and no request is served.  A name in both C and P is
\* called with C's handler, and no name of P or E alone is in the map.
C1_TierResolution ==
    LET C == CAPTURED_TOOLS
        P == _probe_tool_registry(mcp)
        E == EXPOSED_TOOLS.d
        kept == {k \in DOMAIN E : k # NonString /\ E[k] \in Handlers}
        expected == IF DOMAIN C # {} THEN C
                    ELSE IF DOMAIN P.out # {} THEN P.out
                    ELSE [k \in kept |-> E[k]]
    IN  (phase # "import" /\ (DOMAIN C # {} \/ ~P.raised)) =>
            /\ DOMAIN expected # {} => phase = "serving" /\ TOOL_MAP = expected
            /\ DOMAIN expected = {} =>
                  phase = "failed" /\ \A r \in Slots : req[r] = Idle
            /\ DOMAIN C # {} =>
                  /\ DOMAIN TOOL_MAP = DOMAIN C
                  /\ \A r \in Slots :
                        IsCall(r) /\ req[r].tool \in DOMAIN C =>
                            req[r].func = C[req[r].tool]

\* C1's case: C and P both hold "hSync", with different handlers, and the
\* tool was called.
C1_Witness ==
    /\ phase = "serving"
    /\ "hSync" \in DOMAIN CAPTURED_TOOLS
    /\ "hSync" \in DOMAIN _probe_tool_registry(mcp).out
    /\ _probe_tool_registry(mcp).out["hSync"] # CAPTURED_TOOLS["hSync"]
    /\ \E r \in Slots :
          /\ Answered(r) /\ req[r].tool = "hSync" /\ req[r].execs = 1
          /\ req[r].func = CAPTURED_TOOLS["hSync"]

\* What str(e) is for the error a call ended with.
MessageOf(r) ==
    IF CallRaisesTypeError(req[r].func, req[r].kwargs) THEN "TypeError" ELSE "boom"

\* C2 as stated: a handler that raises any error while it runs gives 500
\* with the tool name and the message in the detail, and is not retried.
C2_AnyErrorGives500 ==
    \A r \in Slots :
        IsCall(r) /\ Answered(r) /\ req[r].raised # "none" =>
            /\ req[r].resp.status = 500
            /\ req[r].resp.detail =
                   <<"Tool '", req[r].tool, "' raised an error: ", MessageOf(r)>>
            /\ req[r].execs = 1

\* C2 amended: a handler that raises an Exception other than HTTPException
\* gives 500 with the tool name and the message in the detail; an
\* HTTPException of the handler is answered as it is; either way the handler
\* ran once, and a call of any other tool can still be started.
C2_ErrorGives500UnlessHTTP ==
    \A r \in Slots :
        IsCall(r) /\ Answered(r) /\ req[r].raised # "none" =>
            /\ req[r].raised = "Exception" =>
                  /\ req[r].resp.status = 500
                  /\ req[r].resp.detail =
                         <<"Tool '", req[r].tool, "' raised an error: ",
                           MessageOf(r)>>
            /\ req[r].raised = "HTTPException" =>
                  /\ req[r].resp.status = HandlerHTTPError.status_code
                  /\ req[r].resp.detail = <<HandlerHTTPError.detail>>
            /\ req[r].execs = 1
            /\ phase = "serving"
            /\ \A s \in Slots, c \in Sendable :
                  Free(s) /\ c.tool # req[r].tool =>
                      ENABLED call_tool(s, c.tool, c.args)

\* C2's case: one call ended in 500 for its handler's error, and a call of
\* another tool was answered 200.
C2_Witness ==
    \E r, s \in Slots :
        /\ IsCall(r) /\ Answered(r) /\ req[r].raised = "Exception"
        /\ req[r].resp.status = 500 /\ req[r].resp.detail[4] = "boom"
        /\ IsCall(s) /\ Answered(s) /\ req[s].tool # req[r].tool
        /\ req[s].resp.status = 200

\* C3 as stated: every key of args that matches no declared parameter is
\* passed to the handler, whether or not the signature can be inspected.
C3_ExtrasPassedThrough ==
    \A r \in Slots :
        Dispatched(r) =>
            \A k \in DOMAIN req[r].args :
                k \notin ByKeyword(req[r].func) =>
                    /\ k \in DOMAIN req[r].kwargs
                    /\ req[r].kwargs[k] = req[r].args[k]

\* C3 amended: when the signature can be inspected the handler gets exactly
\* the keys of args that name a positional-or-named or named-only parameter,
\* and every other key is dropped; when inspection fails it gets args
\* verbatim, and that path answers no error of its own.
C3_ExtrasDroppedUnlessUninspectable ==
    \A r \in Slots :
        /\ Dispatched(r) /\ req[r].func \notin Uninspectable =>
              /\ DOMAIN req[r].kwargs = DOMAIN req[r].args \cap ByKeyword(req[r].func)
              /\ \A k \in DOMAIN req[r].kwargs : req[r].kwargs[k] = req[r].args[k]
        /\ IsCall(r) /\ req[r].func \in Uninspectable =>
              /\ Dispatched(r)
              /\ req[r].kwargs = req[r].args
              /\ req[r].resp.src \notin {"lookup", "bind"}

\* C3's case: a handler with an inspectable signature ran on args with the
\* undeclared key x, and did not get it.
C3_Witness ==
    \E r \in Slots :
        /\ Dispatched(r) /\ Answered(r) /\ req[r].resp.status = 200
        /\ req[r].func \notin Uninspectable
        /\ "x" \in DOMAIN req[r].args
        /\ "x" \notin DOMAIN req[r].kwargs

\* C4 as stated: for every parameter p without default, args without p are
\* answered 400 "Missing required parameter: p" with the handler not run,
\* and args with p run the handler with p bound to its value.
C4_MissingNamesP ==
    \A r \in Slots :
        IsCall(r) /\ req[r].func # None =>
            \A i \in Required(req[r].func) :
                LET p == Params(req[r].func)[i].name
                IN  IF p \notin DOMAIN req[r].args
                    THEN /\ Answered(r)
                         /\ req[r].resp.status = 400
                         /\ req[r].resp.detail = <<"Missing required parameter: ", p>>
                         /\ req[r].execs = 0
                    ELSE /\ Dispatched(r)
                         /\ req[r].kwargs[p] = req[r].args[p]

\* C4 amended: for a handler whose signature can be inspected, args that
\* lack a parameter without default are answered 400 "Missing required
\* parameter: f", f the first such parameter in declaration order, by the
\* binding step itself, with the handler not run; args that lack none run
\* the handler with every such parameter bound to its value, null included.
C4_MissingNamesFirst ==
    \A r \in Slots :
        IsCall(r) /\ req[r].func # None /\ req[r].func \notin Uninspectable =>
            LET missing == MissingFrom(req[r].func, req[r].args)
                first == CHOOSE i \in missing : \A j \in missing : i <= j
            IN  IF missing # {}
                THEN /\ Answered(r)
                     /\ req[r].resp.status = 400
                     /\ req[r].resp.detail =
                            <<"Missing required parameter: ",
                              Params(req[r].func)[first].name>>
                     /\ req[r].resp.src = "bind"
                     /\ req[r].execs = 0
                ELSE /\ Dispatched(r)
                     /\ \A i \in Required(req[r].func) :
                           req[r].kwargs[Params(req[r].func)[i].name] =
                               req[r].args[Params(req[r].func)[i].name]

\* C4's case: one request lacked two required parameters and was answered
\* 400, another gave p as null and its handler ran with p null.
C4_Witness ==
    \E r, s \in Slots :
        /\ IsCall(r) /\ req[r].func = "hSync" /\ req[r].args = EmptyMap
        /\ req[r].resp.status = 400
        /\ IsCall(s) /\ req[s].func = "hSync" /\ Answered(s) /\ req[s].execs = 1
        /\ req[s].args["p"] = Null /\ req[s].kwargs["p"] = Null

\* C5: a tool name that is no key of the Tool Map is answered 404 "Tool 'n'
\* not found" whatever the args, and no handler runs; a name that is a key
\* is never answered by the lookup step.
C5_UnknownTool404 ==
    \A r \in Slots :
        IsCall(r) =>
            IF req[r].tool \notin DOMAIN TOOL_MAP
            THEN /\ Answered(r)
                 /\ req[r].resp.status = 404
                 /\ req[r].resp.detail = <<"Tool '", req[r].tool, "' not found">>
                 /\ req[r].func = None
                 /\ req[r].execs = 0
            ELSE /\ req[r].resp.src # "lookup"
                 /\ req[r].func = TOOL_MAP[req[r].tool]

\* C5's case: an unknown tool was called with args and answered 404.
C5_Witness ==
    \E r \in Slots :
        /\ IsCall(r) /\ req[r].tool = "zz" /\ req[r].args # EmptyMap
        /\ req[r].resp.status = 404
        /\ DOMAIN TOOL_MAP # {}

\* C6: a synchronous handler runs on a worker thread and never holds the
\* event loop, and while one such handler is blocked for good on its
\* thread, every other in-flight call whose handler does not hang is
\* answered in the end.
C6_ThreadPoolIsolation ==
    /\ [](\A r \in Slots :
            /\ ~HoldsLoop(r)
            /\ IsCall(r) /\ InFlight(r) /\ ~iscoroutinefunction(req[r].func) =>
                  req[r].pc \in {"queued", "thread"})
    /\ \A r \in Slots :
          (InFlight(r) /\ ~Hangs(req[r].func)) ~> Answered(r)

\* C6's case: a hanging synchronous handler is on its thread while a call
\* of another tool is in flight.
C6_Witness ==
    \E r, s \in Slots :
        /\ req[s].pc = "thread" /\ Hangs(req[s].func)
        /\ r # s /\ InFlight(r) /\ req[r].tool # req[s].tool

\* C7: while the facade serves, the Tool Map is the one startup built,
\* whatever requests ran and whatever was registered or probed since, and
\* healthz and list_tools report its count and names.
C7_ToolMapReadOnly ==
    phase = "serving" =>
        /\ TOOL_MAP = startupMap
        /\ \A r \in Slots :
              /\ req[r].op = "healthz" =>
                    req[r].resp.body.tool_count = Cardinality(DOMAIN startupMap)
              /\ req[r].op = "list_tools" =>
                    req[r].resp.body = sorted_keys(startupMap)

\* C7's case: a tool was registered after startup, so that the capture
\* table differs from the map, and debug_introspect and list_tools ran.
C7_Witness ==
    /\ phase = "serving"
    /\ lateRegs > 0
    /\ DOMAIN startupMap \cap DOMAIN CAPTURED_TOOLS # {}
    /\ CAPTURED_TOOLS # startupMap
    /\ \E r, s \in Slots :
          /\ req[r].op = "debug_introspect" /\ req[r].resp.status = 200
          /\ req[s].op = "list_tools"

\* The registrations that have run, and those that record a handler.
Ran == 1..regPos
Recorded(n) == {i \in Ran : tool_name(script[i]) = n /\ callable(script[i].func)}

\* C8 as stated: each name of the capture table maps to the handler of the
\* first registration that resolved to it.
C8_FirstWriterWins ==
    \A n \in DOMAIN CAPTURED_TOOLS :
        \E i \in Recorded(n) :
            /\ \A j \in Recorded(n) : i <= j
            /\ CAPTURED_TOOLS[n] = script[i].func

\* C8 amended: the capture table holds the names that registrations of a
\* callable resolved to, each with the handler of the last of them: a later
\* registration of the same name replaces the earlier one.
C8_LastWriterWins ==
    /\ DOMAIN CAPTURED_TOOLS = {n \in Names : Recorded(n) # {}}
    /\ \A n \in DOMAIN CAPTURED_TOOLS :
          \E i \in Recorded(n) :
              /\ \A j \in Recorded(n) : j <= i
              /\ CAPTURED_TOOLS[n] = script[i].func

\* C8's case: two registrations of different handlers resolved to one name.
C8_Witness ==
    \E n \in DOMAIN CAPTURED_TOOLS :
        \E i, j \in Recorded(n) : i < j /\ script[i].func # script[j].func

\* What one candidate yields when it is inspected alone and nothing raises.
YieldOf(c) == _collect_from_container(c, EmptyMap)

\* C9: a run of the prober returns a mapping and never raises, and what a
\* candidate yields is found even when another candidate raised.
C9_ProbeNeverRaises ==
    probeOut.state = "done" =>
        /\ ~probeOut.raised
        /\ \A a \in DOMAIN probeIn.attrs :
              LET c == probeIn.attrs[a]
              IN  c.kind \in {"dict", "list", "object"} /\ ~YieldOf(c).raised =>
                      DOMAIN YieldOf(c).out \subseteq DOMAIN probeOut.out

\* C10: over all invocations of close_pihole_sessions together, a nested
\* one from the signal handler included, each client's close_session is
\* called at most once.
C10_ClosedAtMostOnce == \A c \in 1..clients : closeCalls[c] <= 1

====
